---------------------------- MODULE Spec2Model ----------------------------
(***************************************************************************)
(* Model of the turn-based dialogue engine of the voice assistant:         *)
(*   src/app/main.py                        the two /process turn handlers *)
(*   src/app/services/financial_service.py  the after-hours inquiry flow   *)
(*   src/app/services/voice_service.py      classifier and recognizers     *)
(*   src/app/services/notification_service.py  staff notification         *)
(*   src/app/models/database.py             call_sessions, inquiries       *)
(*                                                                         *)
(* Python strings are sequences of one-character strings, so that          *)
(* lower(), split(), title(), the `in` substring test and the two regular  *)
(* expressions are computed character by character as the code does.       *)
(* Python dicts are functions whose DOMAIN is the set of keys present.     *)
(***************************************************************************)
EXTENDS Integers, Sequences, FiniteSets, TLC

VARIABLES
    openai_enabled,       \* VoiceService.openai_enabled, fixed at construction
    oncall_staff_phone,   \* settings.ONCALL_STAFF_PHONE, fixed at start-up
    call_sessions,        \* table call_sessions, in insertion order
    financial_inquiries,  \* table financial_inquiries, in insertion order
    staff_notifications,  \* send_staff_notification calls, in order
    req,                  \* the requests in flight, one per worker slot
    nturns,               \* number of requests received so far
    cl,                   \* one classify_intent call (specification SpecClassify)
    active_calls,         \* CallSids of the calls open on the financial line
    ex                    \* one extract_customer_info call (specification SpecExtract)

vars == << openai_enabled, oncall_staff_phone, call_sessions,
           financial_inquiries, staff_notifications, req, nturns, cl,
           active_calls, ex >>

-----------------------------------------------------------------------------
(* Python values *)

\* Python's None; distinct from every string (whose elements are one character)
None == << "<None>" >>

\* bool(v) for v a string or None
Truthy(v) == v # None /\ v # << >>

\* The empty dict
EmptyDict == [k \in {} |-> None]

\* d.get(k): the value, or None when the key is absent
Get(d, k) == IF k \in DOMAIN d THEN d[k] ELSE None

\* d.get(k, default)
GetOr(d, k, default) == IF k \in DOMAIN d THEN d[k] ELSE default

\* d[k] = v on a copy of d
Put(d, k, v) == [x \in (DOMAIN d) \cup {k} |-> IF x = k THEN v ELSE d[x]]

\* d.update(e) on a copy of d
Update(d, e) ==
    [x \in (DOMAIN d) \cup (DOMAIN e) |-> IF x \in DOMAIN e THEN e[x] ELSE d[x]]

-----------------------------------------------------------------------------
(* Characters and str methods *)

UpperChars == <<"A", "B", "C", "D", "E", "F", "G", "H", "I", "J", "K", "L", "M",
                "N", "O", "P", "Q", "R", "S", "T", "U", "V", "W", "X", "Y", "Z">>
LowerChars == <<"a", "b", "c", "d", "e", "f", "g", "h", "i", "j", "k", "l", "m",
                "n", "o", "p", "q", "r", "s", "t", "u", "v", "w", "x", "y", "z">>
DigitChars == <<"0", "1", "2", "3", "4", "5", "6", "7", "8", "9">>

Range(s) == {s[i] : i \in 1..Len(s)}

IsUpper(c) == c \in Range(UpperChars)
IsLower(c) == c \in Range(LowerChars)
IsAlpha(c) == IsUpper(c) \/ IsLower(c)
IsDigit(c) == c \in Range(DigitChars)
IsSpace(c) == c = " "

IndexIn(s, c) == CHOOSE i \in 1..Len(s) : s[i] = c

LowerChar(c) == IF IsUpper(c) THEN LowerChars[IndexIn(UpperChars, c)] ELSE c
UpperChar(c) == IF IsLower(c) THEN UpperChars[IndexIn(LowerChars, c)] ELSE c

\* str.lower()
lower(text) == [i \in 1..Len(text) |-> LowerChar(text[i])]

\* str.title(): a letter is upper-cased when the character before it is not
\* a letter, lower-cased otherwise
title(text) ==
    [i \in 1..Len(text) |->
        IF i > 1 /\ IsAlpha(text[i - 1]) THEN LowerChar(text[i])
                                         ELSE UpperChar(text[i])]

\* needle in hay
Contains(hay, needle) ==
    \E i \in 0..(Len(hay) - Len(needle)) :
        SubSeq(hay, i + 1, i + Len(needle)) = needle

\* any(word in text for word in words)
ContainsAny(text, words) ==
    \E k \in 1..Len(words) : Contains(text, words[k])

\* str.split(): the maximal runs of non-whitespace characters, in order
RECURSIVE SplitFrom(_, _, _)
SplitFrom(text, i, word) ==
    IF i > Len(text)
    THEN IF word = << >> THEN << >> ELSE << word >>
    ELSE IF IsSpace(text[i])
         THEN IF word = << >>
              THEN SplitFrom(text, i + 1, << >>)
              ELSE << word >> \o SplitFrom(text, i + 1, << >>)
         ELSE SplitFrom(text, i + 1, Append(word, text[i]))

split(text) == SplitFrom(text, 1, << >>)

\* ' '.join(words)
RECURSIVE join(_)
join(words) ==
    IF words = << >> THEN << >>
    ELSE IF Len(words) = 1 THEN words[1]
    ELSE words[1] \o << " " >> \o join(Tail(words))

\* words[a:b] with 0-based a, b as in Python (a >= 0)
Slice(words, a, b) ==
    SubSeq(words, a + 1, IF b < Len(words) THEN b ELSE Len(words))

\* The character at 1-based position p, or "" outside the text
At(text, p) == IF p >= 1 /\ p <= Len(text) THEN text[p] ELSE ""

-----------------------------------------------------------------------------
(* VoiceService.extract_phone_number: re.search of                          *)
(*   (\+?1?[\s-]?)?\(?([0-9]{3})\)?[\s-]?([0-9]{3})[\s-]?([0-9]{4})         *)
(* Stages 1-4, 6, 7, 9 are the optional single characters, tried greedily   *)
(* (taken first, skipped on backtracking); stages 5, 8, 10 are the digit    *)
(* groups 2, 3 and 4.                                                       *)

NoMatch == None

IsSep(c) == IsSpace(c) \/ c = "-"

PhoneStageTakes(stage, c) ==
    CASE stage = 1 -> c = "+"
      [] stage = 2 -> c = "1"
      [] stage = 3 -> IsSep(c)
      [] stage = 4 -> c = "("
      [] stage = 6 -> c = ")"
      [] stage = 7 -> IsSep(c)
      [] stage = 9 -> IsSep(c)
      [] OTHER -> FALSE

PhoneStageDigits(stage) ==
    CASE stage = 5 -> 3
      [] stage = 8 -> 3
      [] stage = 10 -> 4
      [] OTHER -> 0

AllDigits(text, p, k) == \A i \in p..(p + k - 1) : IsDigit(At(text, i))

\* The digit groups <<g2, g3, g4>> of the first match (in backtracking order)
\* of stages stage..10 at position p, or NoMatch
RECURSIVE PhoneMatch(_, _, _, _)
PhoneMatch(text, p, stage, groups) ==
    IF stage > 10 THEN groups
    ELSE IF PhoneStageDigits(stage) > 0
    THEN LET k == PhoneStageDigits(stage)
         IN  IF AllDigits(text, p, k)
             THEN PhoneMatch(text, p + k, stage + 1,
                             Append(groups, SubSeq(text, p, p + k - 1)))
             ELSE NoMatch
    ELSE LET taken == IF PhoneStageTakes(stage, At(text, p))
                      THEN PhoneMatch(text, p + 1, stage + 1, groups)
                      ELSE NoMatch
         IN  IF taken # NoMatch THEN taken
             ELSE PhoneMatch(text, p, stage + 1, groups)

\* re.search: the match at the leftmost position that has one
RECURSIVE PhoneSearch(_, _)
PhoneSearch(text, p) ==
    IF p > Len(text) + 1 THEN NoMatch
    ELSE LET m == PhoneMatch(text, p, 1, << >>)
         IN  IF m # NoMatch THEN m ELSE PhoneSearch(text, p + 1)

extract_phone_number(text) ==
    LET match == PhoneSearch(text, 1)
    IN  IF match # NoMatch
        THEN << "+", "1" >> \o match[1] \o match[2] \o match[3]
        ELSE None

-----------------------------------------------------------------------------
(* VoiceService.extract_email: re.search of                                 *)
(*   \b[A-Za-z0-9._%+-]+@[A-Za-z0-9.-]+\.[A-Z|a-z]{2,}\b                    *)

IsWordChar(c) == IsAlpha(c) \/ IsDigit(c) \/ c = "_"
IsLocalChar(c) == IsAlpha(c) \/ IsDigit(c) \/ c \in {".", "_", "%", "+", "-"}
IsDomainChar(c) == IsAlpha(c) \/ IsDigit(c) \/ c \in {".", "-"}
IsTldChar(c) == IsAlpha(c) \/ c = "|"

\* \b at the gap before position p
WordBoundary(text, p) == IsWordChar(At(text, p - 1)) # IsWordChar(At(text, p))

\* Membership in a character class of the pattern, by the class's name
InClass(cls, c) ==
    CASE cls = "local" -> IsLocalChar(c)
      [] cls = "domain" -> IsDomainChar(c)
      [] cls = "tld" -> IsTldChar(c)
      [] OTHER -> FALSE

\* The first position >= p whose character is not in the class
RECURSIVE RunEnd(_, _, _)
RunEnd(text, p, cls) ==
    IF p <= Len(text) /\ InClass(cls, text[p]) THEN RunEnd(text, p + 1, cls) ELSE p

Max(S) == CHOOSE x \in S : \A y \in S : y <= x

\* The position just after the match that starts at p, or 0 when there is
\* none.  The local part is the whole run up to the "@" (no shorter run is
\* followed by "@"); the domain run is given back until a "." follows it, the
\* top-level label until a \b follows it, longest first.
EmailMatchEnd(text, p) ==
    LET a == RunEnd(text, p, "local")
        b == RunEnd(text, a + 1, "domain")
        TldEnds(d) == {e \in (d + 3)..RunEnd(text, d + 1, "tld") :
                          WordBoundary(text, e)}
        Dots == {d \in (a + 2)..(b - 1) : text[d] = "." /\ TldEnds(d) # {}}
    IN  IF WordBoundary(text, p) /\ a > p /\ At(text, a) = "@" /\ Dots # {}
        THEN Max(TldEnds(Max(Dots)))
        ELSE 0

RECURSIVE EmailSearch(_, _)
EmailSearch(text, p) ==
    IF p > Len(text) THEN NoMatch
    ELSE LET e == EmailMatchEnd(text, p)
         IN  IF e > 0 THEN SubSeq(text, p, e - 1) ELSE EmailSearch(text, p + 1)

extract_email(text) == EmailSearch(text, 1)

-----------------------------------------------------------------------------
(* String constants of the code *)

S_RESERVATION == <<"R", "E", "S", "E", "R", "V", "A", "T", "I", "O", "N">>
S_MENU_INQUIRY == <<"M", "E", "N", "U", "_", "I", "N", "Q", "U", "I", "R", "Y">>
S_HOURS_LOCATION == <<"H", "O", "U", "R", "S", "_", "L", "O", "C", "A", "T", "I", "O", "N">>
S_OTHER == <<"O", "T", "H", "E", "R">>
S_ACCOUNT_INQUIRY == <<"A", "C", "C", "O", "U", "N", "T", "_", "I", "N", "Q", "U", "I", "R", "Y">>
S_LOAN_APPLICATION == <<"L", "O", "A", "N", "_", "A", "P", "P", "L", "I", "C", "A", "T", "I", "O", "N">>
S_GENERAL == <<"G", "E", "N", "E", "R", "A", "L">>
S_URGENT == <<"U", "R", "G", "E", "N", "T">>
S_HIGH == <<"H", "I", "G", "H">>
S_MEDIUM == <<"M", "E", "D", "I", "U", "M">>
S_LOW == <<"L", "O", "W">>
S_restaurant == <<"r", "e", "s", "t", "a", "u", "r", "a", "n", "t">>
S_financial == <<"f", "i", "n", "a", "n", "c", "i", "a", "l">>
S_general == <<"g", "e", "n", "e", "r", "a", "l">>

\* The keyword lists of _fallback_intent_classification, in the code's order
restaurant_reservation_words ==
    << <<"r", "e", "s", "e", "r", "v", "a", "t", "i", "o", "n">>,
       <<"b", "o", "o", "k">>,
       <<"t", "a", "b", "l", "e">>,
       <<"r", "e", "s", "e", "r", "v", "e">> >>
restaurant_menu_words ==
    << <<"m", "e", "n", "u">>,
       <<"f", "o", "o", "d">>,
       <<"d", "i", "s", "h">>,
       <<"p", "r", "i", "c", "e">>,
       <<"c", "o", "s", "t">> >>
restaurant_hours_words ==
    << <<"h", "o", "u", "r", "s">>,
       <<"o", "p", "e", "n">>,
       <<"c", "l", "o", "s", "e">>,
       <<"l", "o", "c", "a", "t", "i", "o", "n">>,
       <<"a", "d", "d", "r", "e", "s", "s">> >>
financial_urgent_words ==
    << <<"f", "r", "a", "u", "d">>,
       <<"s", "t", "o", "l", "e", "n">>,
       <<"u", "n", "a", "u", "t", "h", "o", "r", "i", "z", "e", "d">>,
       <<"l", "o", "c", "k", "e", "d">> >>
financial_account_words ==
    << <<"a", "c", "c", "o", "u", "n", "t">>,
       <<"b", "a", "l", "a", "n", "c", "e">>,
       <<"s", "t", "a", "t", "e", "m", "e", "n", "t">> >>
financial_loan_words ==
    << <<"l", "o", "a", "n">>,
       <<"c", "r", "e", "d", "i", "t">>,
       <<"m", "o", "r", "t", "g", "a", "g", "e">> >>

\* The keyword lists of _determine_priority
urgent_keywords ==
    << <<"f", "r", "a", "u", "d">>,
       <<"s", "t", "o", "l", "e", "n">>,
       <<"u", "n", "a", "u", "t", "h", "o", "r", "i", "z", "e", "d">>,
       <<"l", "o", "c", "k", "e", "d">>,
       <<"e", "m", "e", "r", "g", "e", "n", "c", "y">>,
       <<"h", "a", "c", "k">> >>
high_keywords ==
    << <<"p", "a", "y", "m", "e", "n", "t">>,
       <<"d", "u", "e">>,
       <<"d", "e", "a", "d", "l", "i", "n", "e">>,
       <<"b", "i", "l", "l", "i", "n", "g">>,
       <<"d", "i", "s", "p", "u", "t", "e">>,
       <<"a", "c", "c", "e", "s", "s">>,
       <<"u", "r", "g", "e", "n", "t">> >>

\* The introduction cues of _extract_with_fallback
name_phrases ==
    << <<"m", "y", " ", "n", "a", "m", "e", " ", "i", "s">>,
       <<"i", " ", "a", "m">>,
       <<"t", "h", "i", "s", " ", "i", "s">> >>
name_cue_words ==
    << <<"i", "s">>,
       <<"a", "m">> >>

-----------------------------------------------------------------------------
(* VoiceService._fallback_intent_classification.  A classification result  *)
(* is a dict; confidence is in hundredths (80 is 0.8, 50 is 0.5).          *)

IntentResult(intent, confidence) ==
    [k \in {"intent", "confidence"} |->
        IF k = "intent" THEN intent ELSE confidence]

IntentPriorityResult(intent, priority, confidence) ==
    [k \in {"intent", "priority", "confidence"} |->
        IF k = "intent" THEN intent
        ELSE IF k = "priority" THEN priority ELSE confidence]

\* Variant: the menu words are tested before the reservation words
fallback_restaurant_swapped(speech_lower) ==
    IF ContainsAny(speech_lower, restaurant_menu_words)
    THEN IntentResult(S_MENU_INQUIRY, 80)
    ELSE IF ContainsAny(speech_lower, restaurant_reservation_words)
    THEN IntentResult(S_RESERVATION, 80)
    ELSE IF ContainsAny(speech_lower, restaurant_hours_words)
    THEN IntentResult(S_HOURS_LOCATION, 80)
    ELSE IntentResult(S_OTHER, 50)

fallback_restaurant(speech_lower) ==
    IF ContainsAny(speech_lower, restaurant_reservation_words)
    THEN IntentResult(S_RESERVATION, 80)
    ELSE IF ContainsAny(speech_lower, restaurant_menu_words)
    THEN IntentResult(S_MENU_INQUIRY, 80)
    ELSE IF ContainsAny(speech_lower, restaurant_hours_words)
    THEN IntentResult(S_HOURS_LOCATION, 80)
    ELSE IntentResult(S_OTHER, 50)

fallback_financial_swapped(speech_lower) ==
    IF ContainsAny(speech_lower, financial_account_words)
    THEN IntentPriorityResult(S_ACCOUNT_INQUIRY, S_MEDIUM, 80)
    ELSE IF ContainsAny(speech_lower, financial_urgent_words)
    THEN IntentPriorityResult(S_ACCOUNT_INQUIRY, S_URGENT, 80)
    ELSE IF ContainsAny(speech_lower, financial_loan_words)
    THEN IntentPriorityResult(S_LOAN_APPLICATION, S_MEDIUM, 80)
    ELSE IntentPriorityResult(S_GENERAL, S_MEDIUM, 50)

fallback_financial(speech_lower) ==
    IF ContainsAny(speech_lower, financial_urgent_words)
    THEN IntentPriorityResult(S_ACCOUNT_INQUIRY, S_URGENT, 80)
    ELSE IF ContainsAny(speech_lower, financial_account_words)
    THEN IntentPriorityResult(S_ACCOUNT_INQUIRY, S_MEDIUM, 80)
    ELSE IF ContainsAny(speech_lower, financial_loan_words)
    THEN IntentPriorityResult(S_LOAN_APPLICATION, S_MEDIUM, 80)
    ELSE IntentPriorityResult(S_GENERAL, S_MEDIUM, 50)

_fallback_intent_classification(user_speech, context) ==
    LET speech_lower == lower(user_speech)
    IN  IF context = S_restaurant THEN fallback_restaurant(speech_lower)
        ELSE IF context = S_financial THEN fallback_financial(speech_lower)
        ELSE IntentResult(S_OTHER, 50)

-----------------------------------------------------------------------------
(* The model backend (openai.ChatCompletion.acreate) as seen by the code:  *)
(* a call either raises or returns a message content, and the content is   *)
(* either not JSON or the JSON text of some value.                         *)

\* A content json.loads rejects
InvalidJson == [invalid_json |-> TRUE]

\* An exception leaving a function: comparable with every dict
Raised(exc) == [raised |-> exc]

IsRaised(v) == DOMAIN v = {"raised"}

NoException == "none"

\* The exception raised inside the try block of classify_intent, if any:
\* `prompt` is bound only for the two known contexts, the call may raise, and
\* json.loads raises on a content that is not JSON
ClassifyTryException(context, backend) ==
    IF context # S_restaurant /\ context # S_financial THEN "UnboundLocalError"
    ELSE IF backend.kind = "raise" THEN backend.exc
    ELSE IF backend.content = InvalidJson THEN "JSONDecodeError"
    ELSE NoException

\* `except Exception` catches every one of them
ExceptExceptionNarrow(exc) == exc = "JSONDecodeError"

ExceptException(exc) == TRUE

\* VoiceService.classify_intent
classify_intent(user_speech, context, backend) ==
    IF ~openai_enabled
    THEN _fallback_intent_classification(user_speech, context)
    ELSE LET exc == ClassifyTryException(context, backend)
         IN  IF exc = NoException THEN backend.content
             ELSE IF ExceptException(exc)
             THEN _fallback_intent_classification(user_speech, context)
             ELSE Raised(exc)

-----------------------------------------------------------------------------
(* FinancialService: the rule-based extractor *)

\* Variant: the high keywords are tested before the urgent ones
_determine_priority_swapped(text) ==
    LET text_lower == lower(text)
    IN  IF ContainsAny(text_lower, high_keywords) THEN S_HIGH
        ELSE IF ContainsAny(text_lower, urgent_keywords) THEN S_URGENT
        ELSE S_MEDIUM

\* FinancialService._determine_priority
_determine_priority(text) ==
    LET text_lower == lower(text)
    IN  IF ContainsAny(text_lower, urgent_keywords) THEN S_URGENT
        ELSE IF ContainsAny(text_lower, high_keywords) THEN S_HIGH
        ELSE S_MEDIUM

\* The loop over enumerate(words): the index after the first word that is
\* 'is' or 'am', or -1 (Python indices are 0-based, so the word at 1-based
\* position k has index k - 1 and name_start = k)
NameStart(words) ==
    LET cues == {k \in 1..Len(words) : lower(words[k]) \in Range(name_cue_words)}
    IN  IF cues = {} THEN -1 ELSE CHOOSE k \in cues : \A j \in cues : k <= j

\* FinancialService._extract_with_fallback, lines 128-138
ExtractName(user_input, existing_data, updated_data) ==
    IF ~Truthy(Get(existing_data, "name"))
       /\ ContainsAny(lower(user_input), name_phrases)
    THEN LET words == split(user_input)
             name_start == NameStart(words)
         IN  IF name_start > 0 /\ name_start < Len(words)
             THEN Put(updated_data, "name",
                      title(join(Slice(words, name_start, name_start + 2))))
             ELSE updated_data
    ELSE updated_data

\* lines 140-143
ExtractPhone(user_input, updated_data) ==
    LET phone == extract_phone_number(user_input)
    IN  IF Truthy(phone) THEN Put(updated_data, "phone", phone) ELSE updated_data

\* lines 145-148
ExtractEmail(user_input, updated_data) ==
    LET email == extract_email(user_input)
    IN  IF Truthy(email) THEN Put(updated_data, "email", email) ELSE updated_data

\* lines 150-152
ExtractReason(user_input, existing_data, updated_data) ==
    IF ~Truthy(Get(existing_data, "reason"))
    THEN Put(updated_data, "reason", user_input)
    ELSE updated_data

\* lines 154-156
ExtractPriority(user_input, updated_data) ==
    Put(updated_data, "priority", _determine_priority(user_input))

\* FinancialService._extract_with_fallback
_extract_with_fallback(user_input, existing_data) ==
    LET d1 == ExtractName(user_input, existing_data, existing_data)
        d2 == ExtractPhone(user_input, d1)
        d3 == ExtractEmail(user_input, d2)
        d4 == ExtractReason(user_input, existing_data, d3)
    IN  ExtractPriority(user_input, d4)

\* A JSON value that is not an object: dict.update rejects it
NotADict == [not_a_dict |-> TRUE]

\* The exception raised inside the try block of _extract_with_ai, if any
ExtractTryException(backend) ==
    IF backend.kind = "raise" THEN backend.exc
    ELSE IF backend.content = InvalidJson THEN "JSONDecodeError"
    ELSE IF backend.content = NotADict THEN "TypeError"
    ELSE NoException

\* Variant: no `except`, the error leaves the function
_extract_with_ai_unguarded(user_input, existing_data, backend) ==
    IF ExtractTryException(backend) = NoException
    THEN Update(existing_data, backend.content)
    ELSE Raised(ExtractTryException(backend))

\* FinancialService._extract_with_ai
_extract_with_ai(user_input, existing_data, backend) ==
    IF ExtractTryException(backend) = NoException
    THEN Update(existing_data, backend.content)
    ELSE _extract_with_fallback(user_input, existing_data)

\* FinancialService.extract_customer_info
extract_customer_info(user_input, existing_data, backend) ==
    IF openai_enabled
    THEN _extract_with_ai(user_input, existing_data, backend)
    ELSE _extract_with_fallback(user_input, existing_data)

-----------------------------------------------------------------------------
(* FinancialService: checklist, questions, record *)

\* Variant: the email is required as well
required_fields_with_email == << "name", "phone", "reason", "email" >>

required_fields == << "name", "phone", "reason" >>

\* [field for field in required_fields if not customer_info.get(field)]
MissingFields(customer_info) ==
    LET Missing(field) == ~Truthy(Get(customer_info, field))
    IN  SelectSeq(required_fields, Missing)

QuestionName ==
    "I'll be happy to help you. First, could you tell me your full name?"
QuestionPhone ==
    "Thank you! And what's the best phone number for our team to reach you at?"
QuestionReason ==
    "Perfect! Now, could you briefly tell me what you're calling about today?"
QuestionEmail ==
    "Would you also like to provide an email address for follow-up?"
QuestionDefault ==
    "I need a bit more information. Could you repeat that?"

\* FinancialService.get_next_question
get_next_question(missing_field) ==
    CASE missing_field = "name" -> QuestionName
      [] missing_field = "phone" -> QuestionPhone
      [] missing_field = "reason" -> QuestionReason
      [] missing_field = "email" -> QuestionEmail
      [] OTHER -> QuestionDefault

ConfirmationText ==
    "Thank you, {inquiry.customer_name}! I've recorded your information and our team will contact you within 24 hours. Have a great day!"
ServiceApologyText ==
    "I apologize for the technical difficulty. Please call back during business hours and our team will be happy to assist you."
MainApologyText ==
    "I apologize for the technical difficulty. Please call back during our business hours and our team will be happy to assist you."
DidntCatchFinancialText ==
    "I'm sorry, I didn't catch that. Could you please repeat that?"
DidntCatchRestaurantText ==
    "I'm sorry, I didn't catch that. Could you please repeat your request?"

\* A reply: a fixed text and the customer name formatted into it, if any
Reply(text) == [text |-> text, name |-> << >>]
ConfirmationReply(customer_name) == [text |-> ConfirmationText, name |-> customer_name]

\* InquiryPriority: an enum member, its name and its value
InquiryPriority(name) == [name |-> name, value |-> lower(name)]

\* Variant: InquiryPriority.LOW for a key that is not in priority_map
MapPriorityLowDefault(info) ==
    LET key == GetOr(info, "priority", S_MEDIUM)
    IN  IF key \in {S_URGENT, S_HIGH, S_MEDIUM, S_LOW}
        THEN InquiryPriority(key)
        ELSE InquiryPriority(S_LOW)

\* priority_map.get(info.get('priority', 'MEDIUM'), InquiryPriority.MEDIUM)
MapPriority(info) ==
    LET key == GetOr(info, "priority", S_MEDIUM)
    IN  IF key \in {S_URGENT, S_HIGH, S_MEDIUM, S_LOW}
        THEN InquiryPriority(key)
        ELSE InquiryPriority(S_MEDIUM)

\* Variant: the name and the reason are stored in each other's column
NewInquirySwapped(id, info, call_sid) ==
    [ id |-> id,
      customer_name |-> info["reason"],
      phone |-> info["phone"],
      email |-> Get(info, "email"),
      reason |-> info["name"],
      priority |-> MapPriority(info),
      created_by |-> call_sid ]

\* The FinancialInquiry row built by create_inquiry; the id is assigned by
\* the table on commit.  created_by is not a column: it records the call whose
\* turn created the row, for the properties that count rows per call.
NewInquiry(id, info, call_sid) ==
    [ id |-> id,
      customer_name |-> info["name"],
      phone |-> info["phone"],
      email |-> Get(info, "email"),
      reason |-> info["reason"],
      priority |-> MapPriority(info),
      created_by |-> call_sid ]

-----------------------------------------------------------------------------
(* Bounds and inputs of the model *)

\* Requests received in one behaviour
MaxTurns == 2

\* Requests that can be in flight at once (uvicorn workers, or handlers
\* suspended at an await)
Workers == {"w1", "w2"}

\* Twilio call identifiers, and the endpoint each call is routed to
CA1 == <<"C", "A", "1">>
CA2 == <<"C", "A", "2">>
CA9 == <<"C", "A", "9">>
FinancialCallSids == active_calls
RestaurantCallSids == {CA9}

\* Utterances of the after-hours financial line
U_name == <<"i", " ", "a", "m", " ", "a", "l">>
U_phone == <<"5", "5", "5", "1", "2", "3", "4", "5", "6", "7">>
U_phone2 == <<"5", "5", "5", "-", "9", "9", "9", "-", "8", "8", "8", "8">>
U_stolen == <<"c", "a", "r", "d", " ", "s", "t", "o", "l", "e", "n">>
U_both == <<"i", " ", "a", "m", " ", "a", "l", " ", "5", "5", "5", "1", "2", "3", "4", "5", "6", "7">>
FinancialSpeech == {U_name, U_phone, U_phone2, U_stolen, U_both}

\* Utterances of the restaurant line
U_book == <<"b", "o", "o", "k">>
U_menu == <<"m", "e", "n", "u">>
U_open == <<"o", "p", "e", "n">>
U_hello == <<"h", "e", "l", "l", "o">>
RestaurantSpeech == {U_book, U_menu, U_open, U_hello}

\* Outcomes of a call of the model backend: it raises, or returns a content
BackendRaises == [kind |-> "raise", exc |-> "APIError", content |-> InvalidJson]
BackendReturns(content) == [kind |-> "content", exc |-> NoException, content |-> content]

\* Answers of the model backend to an extraction prompt
AiNamePhone == [name |-> <<"A", "l">>, phone |-> <<"+", "1", "5", "5", "5", "0", "0", "0", "1", "1", "1", "1">>, priority |-> S_LOW]
AiReason == [reason |-> <<"h", "e", "l", "p">>, priority |-> S_LOW]
\* Further answers: nulls for what the caller did not say; every required
\* field and no priority; a priority that names no level
AiNulls == [email |-> None, priority |-> None]
AiComplete == [name |-> <<"A", "l">>, phone |-> <<"+", "1", "5", "5", "5", "0", "0", "0", "1", "1", "1", "1">>, reason |-> <<"h", "e", "l", "p">>]
AiLowercase == [name |-> <<"A", "l">>, phone |-> <<"+", "1", "5", "5", "5", "0", "0", "0", "1", "1", "1", "1">>, reason |-> <<"h", "e", "l", "p">>, priority |-> <<"u", "r", "g", "e", "n", "t">>]
ExtractBackends ==
    {BackendRaises} \cup
    {BackendReturns(c) : c \in {InvalidJson, NotADict, AiNamePhone, AiReason,
                                AiNulls, AiComplete, AiLowercase}}

\* Answers of the model backend to a classification prompt
S_COMPLAINT == <<"C", "O", "M", "P", "L", "A", "I", "N", "T">>
ClassifyBackends ==
    {BackendRaises} \cup
    {BackendReturns(c) :
        c \in {InvalidJson} \cup
              {IntentResult(i, 90) : i \in {S_RESERVATION, S_MENU_INQUIRY,
                                            S_HOURS_LOCATION, S_COMPLAINT, S_OTHER}}}

\* The outcomes drawn in the turns of Spec: one failure (every failure takes
\* the same `except`) and the answers that differ in their effect
TurnExtractBackends ==
    {BackendRaises, BackendReturns(AiNamePhone), BackendReturns(AiReason)}
TurnClassifyBackends ==
    {BackendRaises, BackendReturns(IntentResult(S_RESERVATION, 90)),
     BackendReturns(IntentResult(S_COMPLAINT, 90))}
TurnReplyBackends ==
    {BackendRaises, BackendReturns(InvalidJson)}

\* The outcomes of a step the handler may not reach: all of them when it
\* does, one (which is then not read) when it does not
Needed(reached, outcomes) ==
    IF reached THEN outcomes ELSE {CHOOSE o \in outcomes : TRUE}

\* The backend is not called when it is disabled
NotCalled == [kind |-> "not_called", exc |-> NoException, content |-> InvalidJson]

BackendChoices(backends) == IF openai_enabled THEN backends ELSE {NotCalled}

-----------------------------------------------------------------------------
(* The tables *)

\* json.dumps / json.loads of a dict of strings: the text is kept as the
\* value it denotes
json_dumps(data) == [json |-> data]
json_loads(s) == s.json

\* FinancialService.get_session_data: the stored dict, or {} when the call
\* has no row.  Every row's session_data is a JSON text written by
\* update_session_data, so the `except` of line 220 is never entered.
\* The positions in a table of the rows of a call_sid
RowsOf(table, call_sid) ==
    {i \in 1..Len(table) : table[i].call_sid = call_sid}

\* query(CallSession).filter(CallSession.call_sid == call_sid).first(): the
\* position of the row, 0 for no row
FirstRow(table, call_sid) ==
    IF RowsOf(table, call_sid) = {} THEN 0
    ELSE CHOOSE i \in RowsOf(table, call_sid) :
             \A j \in RowsOf(table, call_sid) : i <= j

HasSession(call_sid) == FirstRow(call_sessions, call_sid) # 0

\* The dict stored in a table for a call_sid, {} when it has no row
FieldsIn(table, call_sid) ==
    IF FirstRow(table, call_sid) = 0 THEN EmptyDict
    ELSE json_loads(table[FirstRow(table, call_sid)].session_data)

get_session_data(call_sid) == FieldsIn(call_sessions, call_sid)

\* Variant: an update stamps the row with the tag of the other line
SessionRowRetags(call_sid, session_found, data) ==
    IF session_found /\ HasSession(call_sid)
    THEN [call_sessions[FirstRow(call_sessions, call_sid)]
             EXCEPT !.session_data = json_dumps(data),
                    !.call_type = "restaurant"]
    ELSE [call_sid |-> call_sid, call_type |-> "financial",
          session_data |-> json_dumps(data)]

\* The row written by update_session_data: a new CallSession when the query
\* of line 227 found none, the found row with session_data replaced otherwise
SessionRow(call_sid, session_found, data) ==
    IF session_found /\ HasSession(call_sid)
    THEN [call_sessions[FirstRow(call_sessions, call_sid)]
             EXCEPT !.session_data = json_dumps(data)]
    ELSE [call_sid |-> call_sid, call_type |-> "financial",
          session_data |-> json_dumps(data)]

\* db.commit() of line 240 violates the UNIQUE constraint on call_sid when
\* it inserts a row for a call_sid that has got one since the query
\* Variant: call_sid is not declared unique
IntegrityErrorNever(call_sid, session_found) == FALSE

IntegrityError(call_sid, session_found) ==
    ~session_found /\ HasSession(call_sid)

\* Variant: the row is written without the filter on call_sid
WriteSessionUnfiltered(call_sid, session_found, row) ==
    [i \in 1..Len(call_sessions) |->
        [row EXCEPT !.call_sid = call_sessions[i].call_sid]]
    \o (IF session_found THEN << >> ELSE << row >>)

\* db.add(session) of a new row, or the found row replaced; db.commit()
WriteSession(call_sid, session_found, row) ==
    IF session_found /\ HasSession(call_sid)
    THEN [call_sessions EXCEPT ![FirstRow(call_sessions, call_sid)] = row]
    ELSE Append(call_sessions, row)

\* The fields stored for a call, {} when it has no row
Stored(call_sid) == get_session_data(call_sid)

-----------------------------------------------------------------------------
(* One request: the turn handler and its locals *)

NoResponse == [say |-> << >>, gather |-> FALSE, dial |-> FALSE]

IdleReq ==
    [ pc |-> "idle",
      domain |-> "none",
      SpeechResult |-> None,
      CallSid |-> None,
      session_data |-> EmptyDict,     \* handle_after_hours_inquiry's local
      customer_info |-> EmptyDict,    \* handle_after_hours_inquiry's local
      session_found |-> FALSE,        \* update_session_data's `session`
      inquiry |-> 0,                  \* id of the row create_inquiry returned
      response |-> NoResponse,        \* the TwiML returned
      \* history of the turn, read only by the properties
      raised |-> "none",              \* the step whose error ended the turn
      extractions |-> 0,              \* calls of extract_customer_info
      classifications |-> 0,          \* calls of classify_intent
      notified |-> 0,                 \* calls of send_staff_notification
      notify_failed |-> FALSE,        \* an error was raised inside that call
      intent |-> None,                \* the intent the turn was classified as
      is_complete |-> FALSE,          \* the reservation flow reported the end
      \* history of the call, kept from turn to turn in SpecDialogue
      said_name |-> FALSE,            \* an utterance so far gave a name
      said_phone |-> FALSE,           \* an utterance so far gave a phone number
      cooperative |-> TRUE ]          \* every question so far got its answer

\* `not SpeechResult or not CallSid` (main.py lines 111 and 237)
InputMissingBoth(SpeechResult, CallSid) == ~Truthy(SpeechResult) /\ ~Truthy(CallSid)

InputMissing(SpeechResult, CallSid) == ~Truthy(SpeechResult) \/ ~Truthy(CallSid)

\* main.py lines 254-265: say the reply, gather again unless complete
FinancialResponse(reply, is_complete) ==
    [say |-> << reply >>, gather |-> ~is_complete, dial |-> FALSE]

\* financial_service.py lines 64-66: the (reply, is_complete) returned by the
\* `except Exception` of handle_after_hours_inquiry
HandlerExceptKeepsListening == << Reply(ServiceApologyText), FALSE >>

HandlerExcept == << Reply(ServiceApologyText), TRUE >>

\* The request of worker w ends with the response; `step` names the step
\* that raised, "none" if none did.  The locals no property reads go out of
\* scope.
Responded(w, response, step) ==
    [req EXCEPT ![w].pc = "responded",
                ![w].response = response,
                ![w].raised = step,
                ![w].session_data = EmptyDict,
                ![w].session_found = FALSE]

\* The turn of worker w ends in the handler's `except`
RespondedExcept(w, step) ==
    Responded(w, FinancialResponse(HandlerExcept[1], HandlerExcept[2]), step)

\* process_financial_request, lines 236-247: a worker that has no request,
\* or has answered its last one, takes the next; the input check
ProcessFinancialRequest(w) ==
    /\ req[w].pc \in {"idle", "responded"}
    /\ nturns < MaxTurns
    /\ \E speech \in FinancialSpeech \cup {<< >>} :
       \E sid \in FinancialCallSids \cup {None} :
          LET r == [IdleReq EXCEPT !.domain = "financial",
                                   !.SpeechResult = speech,
                                   !.CallSid = sid]
          IN  req' = IF InputMissing(speech, sid)
                     THEN [req EXCEPT ![w] =
                              [r EXCEPT !.pc = "responded",
                                        !.response =
                                            [say |-> << Reply(DidntCatchFinancialText) >>,
                                             gather |-> TRUE, dial |-> FALSE]]]
                     ELSE [req EXCEPT ![w] = [r EXCEPT !.pc = "get_session_data"]]
    /\ nturns' = nturns + 1
    /\ UNCHANGED << openai_enabled, oncall_staff_phone, call_sessions,
                    financial_inquiries, staff_notifications, cl,
                    active_calls, ex >>

\* handle_after_hours_inquiry, lines 36-39: the session is loaded, then the
\* fields are extracted from the utterance and the loaded copy
GetSessionData(w) ==
    /\ req[w].pc = "get_session_data"
    /\ \E db_error \in BOOLEAN :
       \E backend \in Needed(~db_error, BackendChoices(TurnExtractBackends)) :
          LET session_data == get_session_data(req[w].CallSid)
          IN  req' = IF db_error
                     THEN RespondedExcept(w, "get_session_data")
                     ELSE [req EXCEPT ![w].pc = "update_session_data",
                                      ![w].session_data = session_data,
                                      ![w].customer_info =
                                          extract_customer_info(req[w].SpeechResult,
                                                                session_data, backend),
                                      ![w].extractions = @ + 1]
    /\ UNCHANGED << openai_enabled, oncall_staff_phone, call_sessions,
                    financial_inquiries, staff_notifications, nturns, cl,
                    active_calls, ex >>

\* update_session_data, line 227: the query
UpdateSessionQuery(w) ==
    /\ req[w].pc = "update_session_data"
    /\ req' = [req EXCEPT ![w].pc = "commit_session",
                          ![w].session_found = HasSession(req[w].CallSid)]
    /\ UNCHANGED << openai_enabled, oncall_staff_phone, call_sessions,
                    financial_inquiries, staff_notifications, nturns, cl,
                    active_calls, ex >>

\* The (reply, is_complete) of lines 44-52 when a required field is missing
\* Variant: asks for the last missing field
AskNext(missing_fields) == << Reply(get_next_question(missing_fields[Len(missing_fields)])), FALSE >>

\* Variant: asks, then ends the call
NextQuestionStops(missing_fields) == << Reply(get_next_question(missing_fields[1])), TRUE >>

NextQuestion(missing_fields) == << Reply(get_next_question(missing_fields[1])), FALSE >>

\* update_session_data, lines 229-240: the write and its commit; then
\* handle_after_hours_inquiry, lines 44-52: the checklist
UpdateSessionCommit(w) ==
    /\ req[w].pc = "commit_session"
    /\ \E db_error \in BOOLEAN :
       LET sid == req[w].CallSid
           info == req[w].customer_info
           missing_fields == MissingFields(info)
       IN  IF db_error \/ IntegrityError(sid, req[w].session_found)
           THEN /\ req' = RespondedExcept(w, "update_session_data")
                /\ UNCHANGED call_sessions
           ELSE /\ call_sessions' =
                       WriteSession(sid, req[w].session_found,
                                    SessionRow(sid, req[w].session_found, info))
                /\ req' = IF missing_fields # << >>
                          THEN Responded(w, FinancialResponse(NextQuestion(missing_fields)[1],
                                                              NextQuestion(missing_fields)[2]),
                                         "none")
                          ELSE [req EXCEPT ![w].pc = "create_inquiry"]
    /\ UNCHANGED << openai_enabled, oncall_staff_phone,
                    financial_inquiries, staff_notifications, nturns, cl,
                    active_calls, ex >>

\* create_inquiry, lines 185-211
CreateInquiry(w) ==
    /\ req[w].pc = "create_inquiry"
    /\ \E db_error \in BOOLEAN :
       IF db_error
       THEN /\ req' = RespondedExcept(w, "create_inquiry")
            /\ UNCHANGED financial_inquiries
       ELSE LET id == Len(financial_inquiries) + 1
            IN  /\ financial_inquiries' =
                       Append(financial_inquiries,
                              NewInquiry(id, req[w].customer_info, req[w].CallSid))
                /\ req' = [req EXCEPT ![w].pc = "send_staff_notification",
                                      ![w].inquiry = id]
    /\ UNCHANGED << openai_enabled, oncall_staff_phone, call_sessions,
                    staff_notifications, nturns, cl,
                    active_calls, ex >>

\* Variant: only URGENT inquiries ask for the SMS
StaffNotificationUrgentOnly(inquiry) ==
    [ inquiry |-> inquiry.id,
      urgent_sms |-> /\ inquiry.priority.value = lower(S_URGENT)
                     /\ Truthy(oncall_staff_phone) ]

\* Variant: the notification names the row after the one it was given
StaffNotificationOther(inquiry) ==
    [ inquiry |-> inquiry.id + 1,
      urgent_sms |-> /\ inquiry.priority.value \in {lower(S_URGENT), lower(S_HIGH)}
                     /\ Truthy(oncall_staff_phone) ]

\* NotificationService.send_staff_notification, lines 43-52: the log line and
\* the condition under which send_urgent_sms is called
StaffNotification(inquiry) ==
    [ inquiry |-> inquiry.id,
      urgent_sms |-> /\ inquiry.priority.value \in {lower(S_URGENT), lower(S_HIGH)}
                     /\ Truthy(oncall_staff_phone) ]

\* Variant: the error is let out of the collaborator
NotificationExceptNone(exc) == FALSE

\* `except Exception` of send_staff_notification (line 51), of
\* send_urgent_sms (line 65) and of send_sms (line 82): the error is logged
NotificationExcept(exc) == TRUE

\* handle_after_hours_inquiry, lines 58-62; the collaborator's log line or
\* its SMS may raise
SendStaffNotification(w) ==
    /\ req[w].pc = "send_staff_notification"
    /\ \E failure \in {NoException, "TwilioRestException"} :
       LET inquiry == financial_inquiries[req[w].inquiry]
           answered ==
               IF failure # NoException /\ ~NotificationExcept(failure)
               THEN RespondedExcept(w, "send_staff_notification")
               ELSE Responded(w, FinancialResponse(
                                     ConfirmationReply(inquiry.customer_name), TRUE),
                              "none")
       IN  /\ staff_notifications' =
                  Append(staff_notifications, StaffNotification(inquiry))
           /\ req' = [answered EXCEPT ![w].notified = @ + 1,
                                      ![w].notify_failed = (failure # NoException)]
    /\ UNCHANGED << openai_enabled, oncall_staff_phone, call_sessions,
                    financial_inquiries, nturns, cl,
                    active_calls, ex >>

-----------------------------------------------------------------------------
(* process_restaurant_request *)

HoursInfoText ==
    "We're open Monday through Sunday from 11 AM to 10 PM. We're located at [Your Restaurant Address]. You can also visit our website for more information. Is there anything else I can help you with?"
AnythingElseText ==
    "Is there anything else I can help you with today?"
RestaurantApologyText ==
    "I apologize for the technical difficulty. Let me transfer you to our hostess who can help you right away."
FallbackReservationText ==
    "I'd be happy to help you with a reservation. What date and time would you like to dine with us?"
FallbackMenuText ==
    "I can help you with information about our menu. What would you like to know about our dishes?"
FallbackHoursText ==
    "We're open daily from 11 AM to 10 PM. You can find us at [Your Address]. How else can I help?"
FallbackOtherText ==
    "I'm here to help with reservations, menu questions, or restaurant information. What can I assist you with?"

\* The texts produced outside src/: the reservation sub-flow's reply, the
\* menu collaborator's answer, the model backend's generated reply
ReservationReplyText == "<reply of handle_reservation_request>"
MenuReplyText == "<reply of handle_menu_inquiry>"
GeneratedReplyText == "<response.choices[0].message.content>"

\* VoiceService._generate_fallback_response for context "restaurant"
_generate_fallback_response(intent_data) ==
    LET intent == GetOr(intent_data, "intent", S_OTHER)
    IN  IF intent = S_RESERVATION THEN Reply(FallbackReservationText)
        ELSE IF intent = S_MENU_INQUIRY THEN Reply(FallbackMenuText)
        ELSE IF intent = S_HOURS_LOCATION THEN Reply(FallbackHoursText)
        ELSE Reply(FallbackOtherText)

\* VoiceService.generate_smart_response / _generate_ai_response
generate_smart_response(intent_data, backend) ==
    IF openai_enabled /\ backend.kind = "content"
    THEN Reply(GeneratedReplyText)
    ELSE _generate_fallback_response(intent_data)

\* Variant: the error leaves the handler and no TwiML is returned
RestaurantExceptEscapes == NoResponse

\* Variant: the `except` gathers again and does not dial
RestaurantExceptKeepsListening ==
    [say |-> << Reply(RestaurantApologyText) >>, gather |-> TRUE, dial |-> FALSE]

\* main.py lines 182-187
RestaurantExcept == [say |-> << Reply(RestaurantApologyText) >>, gather |-> FALSE, dial |-> TRUE]

\* RestaurantService.handle_reservation_request is not in src/: its result
\* (reply, is_complete) is any reply and either outcome
handle_reservation_request_results ==
    {<< Reply(ReservationReplyText), c >> : c \in BOOLEAN}

\* Variant: the menu branch does not gather again
RestaurantBranchMenuEnds(intent_data, result, backend) ==
    LET intent == GetOr(intent_data, "intent", S_OTHER)
    IN  IF intent = S_RESERVATION
        THEN [say |-> << result[1] >>, gather |-> ~result[2], dial |-> FALSE]
        ELSE IF intent = S_MENU_INQUIRY
        THEN [say |-> << Reply(MenuReplyText), Reply(AnythingElseText) >>,
              gather |-> FALSE, dial |-> FALSE]
        ELSE IF intent = S_HOURS_LOCATION
        THEN [say |-> << Reply(HoursInfoText) >>, gather |-> TRUE, dial |-> FALSE]
        ELSE [say |-> << generate_smart_response(intent_data, backend) >>,
              gather |-> TRUE, dial |-> FALSE]

\* process_restaurant_request, lines 131-180: the response of the branch
\* taken on the intent
RestaurantBranch(intent_data, result, backend) ==
    LET intent == GetOr(intent_data, "intent", S_OTHER)
    IN  IF intent = S_RESERVATION
        THEN [say |-> << result[1] >>, gather |-> ~result[2], dial |-> FALSE]
        ELSE IF intent = S_MENU_INQUIRY
        THEN [say |-> << Reply(MenuReplyText), Reply(AnythingElseText) >>,
              gather |-> TRUE, dial |-> FALSE]
        ELSE IF intent = S_HOURS_LOCATION
        THEN [say |-> << Reply(HoursInfoText) >>, gather |-> TRUE, dial |-> FALSE]
        ELSE [say |-> << generate_smart_response(intent_data, backend) >>,
              gather |-> TRUE, dial |-> FALSE]

\* The branches of lines 131-153 that await a collaborator of
\* restaurant_service, which may raise; the other two branches call nothing
\* that raises (generate_smart_response has its own `except`)
AwaitsRestaurantService(intent_data) ==
    /\ ~IsRaised(intent_data)
    /\ GetOr(intent_data, "intent", S_OTHER) \in {S_RESERVATION, S_MENU_INQUIRY}

\* process_restaurant_request, lines 110-187: the input check, the
\* classification, the branch; a collaborator that raises ends the turn in
\* the `except` of line 182.  No step of it in src/ reads or writes a table.
ProcessRestaurantRequest(w) ==
    /\ req[w].pc \in {"idle", "responded"}
    /\ nturns < MaxTurns
    /\ \E speech \in RestaurantSpeech \cup {<< >>} :
       \E sid \in RestaurantCallSids \cup {None} :
       \E backend \in Needed(~InputMissing(speech, sid),
                             BackendChoices(TurnClassifyBackends)) :
       \E error \in Needed(/\ ~InputMissing(speech, sid)
                           /\ AwaitsRestaurantService(
                                  classify_intent(speech, S_restaurant, backend)),
                           {FALSE, TRUE}) :
       \E result \in Needed(~InputMissing(speech, sid) /\ ~error,
                            handle_reservation_request_results) :
       \E reply_backend \in Needed(~InputMissing(speech, sid) /\ ~error,
                                   BackendChoices(TurnReplyBackends)) :
          LET r == [IdleReq EXCEPT !.pc = "responded",
                                   !.domain = "restaurant",
                                   !.SpeechResult = speech,
                                   !.CallSid = sid]
              intent_data == classify_intent(speech, S_restaurant, backend)
          IN  req' = IF InputMissing(speech, sid)
                     THEN [req EXCEPT ![w] =
                              [r EXCEPT !.response =
                                            [say |-> << Reply(DidntCatchRestaurantText) >>,
                                             gather |-> TRUE, dial |-> FALSE]]]
                     ELSE IF IsRaised(intent_data)
                     THEN [req EXCEPT ![w] =
                              [r EXCEPT !.response = RestaurantExcept,
                                        !.classifications = 1,
                                        !.raised = "classify_intent"]]
                     ELSE IF error
                     THEN [req EXCEPT ![w] =
                              [r EXCEPT !.response = RestaurantExcept,
                                        !.classifications = 1,
                                        !.intent = GetOr(intent_data, "intent", S_OTHER),
                                        !.raised = "branch"]]
                     ELSE [req EXCEPT ![w] =
                              [r EXCEPT !.classifications = 1,
                                        !.intent = GetOr(intent_data, "intent", S_OTHER),
                                        !.is_complete =
                                            (/\ GetOr(intent_data, "intent", S_OTHER)
                                                    = S_RESERVATION
                                             /\ result[2]),
                                        !.response =
                                            RestaurantBranch(intent_data, result,
                                                             reply_backend)]]
    /\ nturns' = nturns + 1
    /\ UNCHANGED << openai_enabled, oncall_staff_phone, call_sessions,
                    financial_inquiries, staff_notifications, cl,
                    active_calls, ex >>

-----------------------------------------------------------------------------
(* The dialogue engine *)

IdleClassify ==
    [pc |-> "idle", words |-> << >>, text |-> << >>, context |-> S_general,
     backend |-> NotCalled, result |-> EmptyDict]

IdleExtract ==
    [pc |-> "idle", user_input |-> << >>, digits |-> << >>,
     existing_data |-> EmptyDict, backend |-> NotCalled, result |-> EmptyDict]

OnCallPhone == <<"+", "1", "5", "5", "5", "0", "0", "0", "9", "9", "9", "9">>

Init ==
    /\ openai_enabled \in BOOLEAN
    /\ oncall_staff_phone \in {<< >>, OnCallPhone}
    /\ call_sessions = << >>
    /\ financial_inquiries = << >>
    /\ staff_notifications = << >>
    /\ req = [w \in Workers |-> IdleReq]
    /\ nturns = 0
    /\ cl = IdleClassify
    /\ active_calls = {CA1}
    /\ ex = IdleExtract

Next ==
    \E w \in Workers :
        \/ ProcessFinancialRequest(w)
        \/ GetSessionData(w)
        \/ UpdateSessionQuery(w)
        \/ UpdateSessionCommit(w)
        \/ CreateInquiry(w)
        \/ SendStaffNotification(w)
        \/ ProcessRestaurantRequest(w)

Spec == Init /\ [][Next]_vars

\* The steps of the turn worker w is serving.  The event loop resumes every
\* coroutine whose awaited call has returned, so a turn that can take a step
\* takes it.
HandlerStep(w) ==
    \/ GetSessionData(w)
    \/ UpdateSessionQuery(w)
    \/ UpdateSessionCommit(w)
    \/ CreateInquiry(w)
    \/ SendStaffNotification(w)

\* A step of HandlerStep(w) is enabled exactly when worker w is inside a turn
\* (each step is guarded by the position alone)
InTurn(w) == req[w].pc \notin {"idle", "responded"}

\* WF_vars(HandlerStep(w)), written with InTurn(w) for ENABLED
FairTurn(w) == []<>(~InTurn(w)) \/ []<><<HandlerStep(w)>>_vars

SpecLive == Init /\ [][Next]_vars /\ \A w \in Workers : FairTurn(w)

\* Two calls open on the financial line at once, the backend disabled and no
\* on-call phone configured (specification SpecCalls)
InitCalls ==
    /\ openai_enabled = FALSE
    /\ oncall_staff_phone = << >>
    /\ call_sessions = << >>
    /\ financial_inquiries = << >>
    /\ staff_notifications = << >>
    /\ req = [w \in Workers |-> IdleReq]
    /\ nturns = 0
    /\ cl = IdleClassify
    /\ active_calls = {CA1, CA2}
    /\ ex = IdleExtract

SpecCalls == InitCalls /\ [][Next]_vars

-----------------------------------------------------------------------------
(* One call of classify_intent on a text built from a vocabulary *)

\* Words in a text
MaxWords == 2

W_fraud == <<"f", "r", "a", "u", "d">>
W_STOLEN == <<"S", "T", "O", "L", "E", "N">>
W_unlocked == <<"u", "n", "l", "o", "c", "k", "e", "d">>
W_account == <<"a", "c", "c", "o", "u", "n", "t">>
W_Balance == <<"B", "a", "l", "a", "n", "c", "e">>
W_loan == <<"l", "o", "a", "n">>
W_Credit == <<"C", "r", "e", "d", "i", "t">>
W_hello == <<"h", "e", "l", "l", "o">>
W_book == <<"b", "o", "o", "k">>
W_menu == <<"m", "e", "n", "u">>
W_open == <<"o", "p", "e", "n">>
W_Table == <<"T", "a", "b", "l", "e">>
Vocabulary ==
    {W_fraud, W_STOLEN, W_unlocked, W_account, W_Balance, W_loan, W_Credit,
     W_hello, W_book, W_menu, W_open, W_Table}

Contexts == {S_restaurant, S_financial, S_general}

\* The sequences of at most n words
RECURSIVE WordSeqs(_)
WordSeqs(n) ==
    IF n = 0 THEN {<< >>}
    ELSE LET shorter == WordSeqs(n - 1)
         IN  shorter \cup {Append(ws, w) : ws \in shorter, w \in Vocabulary}

InitClassify ==
    /\ openai_enabled \in BOOLEAN
    /\ oncall_staff_phone = << >>
    /\ call_sessions = << >>
    /\ financial_inquiries = << >>
    /\ staff_notifications = << >>
    /\ req = [w \in Workers |-> IdleReq]
    /\ nturns = 0
    /\ active_calls = {CA1}
    /\ ex = IdleExtract
    /\ \E ws \in WordSeqs(MaxWords) :
       \E context \in Contexts :
          cl = [pc |-> "called", words |-> ws, text |-> join(ws),
                context |-> context, backend |-> NotCalled, result |-> EmptyDict]

\* The call runs to its return (or to the exception that leaves it)
ClassifyCall ==
    /\ cl.pc = "called"
    /\ \E backend \in BackendChoices(ClassifyBackends) :
          cl' = [cl EXCEPT !.pc = "returned",
                           !.backend = backend,
                           !.result = classify_intent(cl.text, cl.context, backend)]
    /\ UNCHANGED << openai_enabled, oncall_staff_phone, call_sessions,
                    financial_inquiries, staff_notifications, req, nturns,
                    active_calls, ex >>

NextClassify == ClassifyCall

SpecClassify == InitClassify /\ [][NextClassify]_vars

-----------------------------------------------------------------------------
(* One call of extract_customer_info, and create_inquiry on its result      *)
(* (specification SpecExtract)                                              *)

\* Ways of saying a ten-digit number: an optional country prefix, three
\* shapes, three groups of digits, words around it
PhonePrefixes ==
    {<< >>, <<"+", "1">>, <<"1">>, <<"+", "1", " ">>, <<"1", " ">>, <<"1", "-">>}
PhoneAreas == {<<"5", "5", "5">>, <<"1", "5", "5">>}
PhoneExchanges == {<<"1", "2", "3">>, <<"0", "1", "1">>}
PhoneLines == {<<"4", "5", "6", "7">>}
PhoneShapes == {"(ddd) ddd-dddd", "ddd-ddd-dddd", "dddddddddd"}
PhoneShape(shape, area, exchange, line) ==
    CASE shape = "(ddd) ddd-dddd" ->
             <<"(">> \o area \o <<")", " ">> \o exchange \o <<"-">> \o line
      [] shape = "ddd-ddd-dddd" ->
             area \o <<"-">> \o exchange \o <<"-">> \o line
      [] OTHER -> area \o exchange \o line
WordsBefore == {<< >>, <<"c", "a", "l", "l", " ">>}
WordsAfter == {<< >>, <<" ", "p", "l", "e", "a", "s", "e">>}

\* The utterances with a number in them, each with the ten digits said
PhoneInputs ==
    {[text |-> before \o prefix \o PhoneShape(shape, area, exchange, line) \o after,
      digits |-> area \o exchange \o line] :
        before \in WordsBefore, prefix \in PhonePrefixes, shape \in PhoneShapes,
        area \in PhoneAreas, exchange \in PhoneExchanges, line \in PhoneLines,
        after \in WordsAfter}

\* Utterances with no ten-digit number in them
U_email == <<"m", "a", "i", "l", " ", "a", "l", "@", "a", "b", ".", "c", "o">>
U_payment == <<"p", "a", "y", "m", "e", "n", "t", " ", "d", "u", "e">>
U_seven == <<"5", "5", "5", "-", "1", "2", "3", "4">>

\* Utterances with the words of an introduction in them
U_myname == <<"M", "y", " ", "n", "a", "m", "e", " ", "i", "s", " ", "a", "l", " ", "b", "o", " ", "c", "y">>
U_late == <<"i", "t", " ", "i", "s", " ", "l", "o", "s", "t", " ", "i", " ", "a", "m", " ", "a", "l">>
U_thisis == <<"t", "h", "i", "s", " ", "i", "s">>
U_hiamy == <<"h", "i", " ", "a", "m", "y">>
NameInputs == {U_myname, U_late, U_thisis, U_hiamy}

\* Utterances with keywords of both levels, in both orders, and with the
\* word "urgent" itself
U_payfraud == <<"p", "a", "y", "m", "e", "n", "t", " ", "F", "r", "a", "u", "d">>
U_hackdue == <<"h", "a", "c", "k", " ", "d", "u", "e">>
U_urgent == <<"u", "r", "g", "e", "n", "t">>
U_unlocked == <<"u", "n", "l", "o", "c", "k", "e", "d">>
KeywordInputs == {U_payfraud, U_hackdue, U_urgent, U_unlocked}

PlainInputs ==
    {[text |-> t, digits |-> << >>] :
        t \in {U_name, U_stolen, U_email, U_payment, U_seven, U_hello}
                 \cup NameInputs \cup KeywordInputs}

\* Sessions a call can have stored when the turn starts
SessName == [name |-> <<"A", "l">>, reason |-> U_name, priority |-> S_MEDIUM]
SessPhone == [phone |-> <<"+", "1", "5", "5", "5", "0", "0", "0", "2", "2", "2", "2">>, reason |-> U_stolen, priority |-> S_URGENT]
SessNoReason == [name |-> <<"A", "l">>, phone |-> <<"+", "1", "5", "5", "5", "0", "0", "0", "2", "2", "2", "2">>, priority |-> S_LOW]
SessFull ==
    [name |-> <<"A", "l">>, phone |-> <<"+", "1", "5", "5", "5", "0", "0", "0", "2", "2", "2", "2">>, email |-> <<"a", "l", "@", "a", "b", ".", "c", "o">>, reason |-> U_stolen,
     priority |-> S_URGENT]
ExistingSessions == {EmptyDict, SessName, SessPhone, SessNoReason, SessFull}

InitExtract ==
    /\ openai_enabled \in BOOLEAN
    /\ oncall_staff_phone \in {<< >>, OnCallPhone}
    /\ call_sessions = << >>
    /\ financial_inquiries = << >>
    /\ staff_notifications = << >>
    /\ req = [w \in Workers |-> IdleReq]
    /\ nturns = 0
    /\ cl = IdleClassify
    /\ active_calls = {CA1}
    /\ \E input \in PhoneInputs \cup PlainInputs :
       \E existing \in ExistingSessions :
          /\ input \in PhoneInputs => existing \in {EmptyDict, SessPhone}
          /\ ex = [pc |-> "called", user_input |-> input.text,
                   digits |-> input.digits, existing_data |-> existing,
                   backend |-> NotCalled, result |-> EmptyDict]

\* extract_customer_info runs to its return
ExtractCall ==
    /\ ex.pc = "called"
    /\ \E backend \in BackendChoices(ExtractBackends) :
          ex' = [ex EXCEPT !.pc = "returned",
                           !.backend = backend,
                           !.result = extract_customer_info(ex.user_input,
                                                            ex.existing_data, backend)]
    /\ UNCHANGED << openai_enabled, oncall_staff_phone, call_sessions,
                    financial_inquiries, staff_notifications, req, nturns, cl,
                    active_calls >>

\* handle_after_hours_inquiry, lines 44-55: no required field is missing, and
\* create_inquiry builds the row from the extracted fields
CreateInquiryCall ==
    /\ ex.pc = "returned"
    /\ MissingFields(ex.result) = << >>
    /\ financial_inquiries' =
           Append(financial_inquiries,
                  NewInquiry(Len(financial_inquiries) + 1, ex.result, CA1))
    /\ ex' = [ex EXCEPT !.pc = "created"]
    /\ UNCHANGED << openai_enabled, oncall_staff_phone, call_sessions,
                    staff_notifications, req, nturns, cl, active_calls >>

\* handle_after_hours_inquiry, line 58: the created row is handed to
\* send_staff_notification
NotifyCall ==
    /\ ex.pc = "created"
    /\ staff_notifications' =
           Append(staff_notifications,
                  StaffNotification(financial_inquiries[Len(financial_inquiries)]))
    /\ ex' = [ex EXCEPT !.pc = "notified"]
    /\ UNCHANGED << openai_enabled, oncall_staff_phone, call_sessions,
                    financial_inquiries, req, nturns, cl, active_calls >>

NextExtract == ExtractCall \/ CreateInquiryCall \/ NotifyCall

SpecExtract == InitExtract /\ [][NextExtract]_vars

-----------------------------------------------------------------------------
(* One financial call, its turns one after the other, the backend disabled  *)
(* (specification SpecDialogue)                                             *)

\* The non-empty turns one call takes
MaxDialogueTurns == 4

DialogueWorker == "w1"

\* What the caller may say, and the utterances that give a name or a phone
\* number the rule-based extractor recognizes
DialogueSpeech == {U_hello, U_stolen, U_name, U_myname, U_phone, U_phone2, U_both}
SaysName == {U_name, U_myname, U_both}
SaysPhone == {U_phone, U_phone2, U_both}

\* The utterance answers the question the last response asked, if it asked
\* for the name or for the phone number
Answers(speech, response) ==
    /\ response.say = << Reply(QuestionName) >> => speech \in SaysName
    /\ response.say = << Reply(QuestionPhone) >> => speech \in SaysPhone

InitDialogue ==
    /\ openai_enabled = FALSE
    /\ oncall_staff_phone = << >>
    /\ call_sessions = << >>
    /\ financial_inquiries = << >>
    /\ staff_notifications = << >>
    /\ req = [w \in Workers |-> IdleReq]
    /\ nturns = 0
    /\ cl = IdleClassify
    /\ active_calls = {CA1}
    /\ ex = IdleExtract

\* process_financial_request, lines 236-247, for the next utterance of the
\* call: the transport posts one only after a response that gathers (the
\* greeting of /voice/financial gathers the first).  The utterance and the
\* CallSid are non-empty, so the check of line 237 passes.
DialogueTurn ==
    LET w == DialogueWorker
    IN  /\ \/ req[w].pc = "idle"
           \/ req[w].pc = "responded" /\ req[w].response.gather
        /\ nturns < MaxDialogueTurns
        /\ \E speech \in DialogueSpeech :
              req' = [req EXCEPT ![w] =
                         [IdleReq EXCEPT
                             !.pc = "get_session_data",
                             !.domain = "financial",
                             !.SpeechResult = speech,
                             !.CallSid = CA1,
                             !.said_name = req[w].said_name \/ speech \in SaysName,
                             !.said_phone = req[w].said_phone \/ speech \in SaysPhone,
                             !.cooperative = /\ req[w].cooperative
                                             /\ Answers(speech, req[w].response)]]
        /\ nturns' = nturns + 1
        /\ UNCHANGED << openai_enabled, oncall_staff_phone, call_sessions,
                        financial_inquiries, staff_notifications, cl,
                        active_calls, ex >>

NextDialogue == DialogueTurn \/ HandlerStep(DialogueWorker)

SpecDialogue == InitDialogue /\ [][NextDialogue]_vars

-----------------------------------------------------------------------------
(* Properties of the turns (specification Spec) *)

FinancialFields == {"name", "phone", "email", "reason"}

\* The fields stored for a call after the step
StoredNext(call_sid) == FieldsIn(call_sessions', call_sid)

\* The inquiries created by turns of a call
InquiriesOf(call_sid) ==
    {i \in 1..Len(financial_inquiries) : financial_inquiries[i].created_by = call_sid}

\* A financial turn that got past the input check and has answered
AnsweredFinancial(w) ==
    /\ req[w].pc = "responded"
    /\ req[w].domain = "financial"
    /\ req[w].SpeechResult # << >>
    /\ req[w].CallSid # None

\* C1: over any sequence of turns of one call, replays of the completing turn
\* included, at most one FinancialInquiry row is ever created for the call.
C1_AtMostOneInquiryPerCall ==
    \A sid \in FinancialCallSids : Cardinality(InquiriesOf(sid)) <= 1

\* The step of worker w that persists its session
Persists(w) ==
    /\ req[w].pc = "commit_session"
    /\ req'[w].pc # "commit_session"
    /\ call_sessions' # call_sessions

\* The copy worker w loaded is still what the table holds: no other turn of
\* the call has written since
UpToDate(w) == req[w].session_data = Stored(req[w].CallSid)

\* C2: once the stored session of a call holds a non-empty name, phone, email
\* or reason, no later turn changes that value (stated for the turns that
\* persist an up-to-date copy).
C2_FirstValueWins ==
    [][\A w \in Workers : (Persists(w) /\ UpToDate(w)) =>
          \A f \in FinancialFields :
              Truthy(Get(Stored(req[w].CallSid), f))
                  => Get(StoredNext(req[w].CallSid), f) = Get(Stored(req[w].CallSid), f)]_vars

\* LOW < MEDIUM < HIGH < URGENT; a session with no priority yet ranks below all
PriorityRank(priority) ==
    CASE priority = S_LOW -> 1
      [] priority = S_MEDIUM -> 2
      [] priority = S_HIGH -> 3
      [] priority = S_URGENT -> 4
      [] OTHER -> 0

\* C3: the stored priority of a call never moves to a lower level (stated
\* for the turns that persist an up-to-date copy).
C3_PriorityOnlyEscalates ==
    [][\A w \in Workers : (Persists(w) /\ UpToDate(w)) =>
          PriorityRank(Get(StoredNext(req[w].CallSid), "priority"))
              >= PriorityRank(Get(Stored(req[w].CallSid), "priority"))]_vars

\* The canned question of the earliest empty field of the checklist
EarliestMissingQuestion(info) ==
    IF ~Truthy(Get(info, "name")) THEN QuestionName
    ELSE IF ~Truthy(Get(info, "phone")) THEN QuestionPhone
    ELSE QuestionReason

SomeRequiredMissing(info) ==
    \E f \in {"name", "phone", "reason"} : ~Truthy(Get(info, f))

\* A financial turn that ended without an error and without completing
AskedQuestion(w) ==
    /\ AnsweredFinancial(w)
    /\ req[w].raised = "none"
    /\ req[w].inquiry = 0

\* C4: a financial turn that does not complete returns the canned question of
\* the earliest empty field of (name, phone, reason) in the merged fields, and
\* nothing else.
C4_FirstMissingWins ==
    \A w \in Workers :
        AskedQuestion(w) =>
            /\ SomeRequiredMissing(req[w].customer_info)
            /\ req[w].response.say =
                   << Reply(EarliestMissingQuestion(req[w].customer_info)) >>

\* C4 witness: a turn with name and phone both empty asked for the name
C4_Witness ==
    \E w \in Workers :
        /\ AskedQuestion(w)
        /\ ~Truthy(Get(req[w].customer_info, "name"))
        /\ ~Truthy(Get(req[w].customer_info, "phone"))
        /\ req[w].response.say = << Reply(QuestionName) >>

\* The reply is one of the canned questions
IsQuestion(response) ==
    /\ Len(response.say) = 1
    /\ response.say[1].text \in {QuestionName, QuestionPhone, QuestionReason}

\* A record is created, and the confirmation returned, only by a turn whose
\* extraction left name, phone and reason non-empty
GatedCreation(w) ==
    (req[w].inquiry # 0 \/ req[w].notified # 0
        \/ (req[w].pc = "responded" /\ req[w].response.say # << >>
            /\ req[w].response.say[1].text = ConfirmationText))
    => ~SomeRequiredMissing(req[w].customer_info)

\* A financial turn whose extraction ran and left a required field empty
LeftFieldEmpty(w) ==
    /\ AnsweredFinancial(w)
    /\ req[w].extractions > 0
    /\ SomeRequiredMissing(req[w].customer_info)

\* C5 as stated: a record and the confirmation only after an extraction that
\* left name, phone and reason non-empty; a turn that leaves one of them empty
\* creates no record, sends no notification, returns a question and keeps
\* listening.
C5_CompletionGatingOriginal ==
    \A w \in Workers :
        /\ GatedCreation(w)
        /\ LeftFieldEmpty(w) =>
               /\ req[w].inquiry = 0
               /\ req[w].notified = 0
               /\ IsQuestion(req[w].response)
               /\ req[w].response.gather

\* C5 as amended: the same, except that the turn whose persist raises returns
\* no question: it ends with the apology.
C5_CompletionGating ==
    \A w \in Workers :
        /\ GatedCreation(w)
        /\ LeftFieldEmpty(w) =>
               /\ req[w].inquiry = 0
               /\ req[w].notified = 0
               /\ req[w].raised \in {"none", "update_session_data"}
               /\ req[w].raised = "none" =>
                      /\ IsQuestion(req[w].response)
                      /\ req[w].response.gather
               /\ req[w].raised = "update_session_data" =>
                      /\ req[w].response.say = << Reply(ServiceApologyText) >>
                      /\ ~req[w].response.gather

\* C5 witness: one turn asked a question and created nothing, and a turn
\* whose fields were all present created a record
C5_Witness ==
    /\ \E w \in Workers :
          /\ LeftFieldEmpty(w)
          /\ req[w].raised = "none"
          /\ IsQuestion(req[w].response)
    /\ \E w \in Workers :
          /\ req[w].inquiry # 0
          /\ req[w].pc = "responded"
          /\ req[w].response.say[1].text = ConfirmationText

\* C6: no lost update: a persist never wipes a field that another turn of the
\* call stored after this turn had loaded its copy.
C6_NoLostUpdate ==
    [][\A w \in Workers : Persists(w) =>
          \A f \in FinancialFields :
              (/\ Truthy(Get(Stored(req[w].CallSid), f))
               /\ ~Truthy(Get(req[w].session_data, f)))
                  => Truthy(Get(StoredNext(req[w].CallSid), f))]_vars

\* The input check's case: no utterance, or no call_sid
EmptyInput(r) == r.SpeechResult = << >> \/ r.CallSid = None

DidntCatch(r) ==
    [say |-> << Reply(IF r.domain = "financial" THEN DidntCatchFinancialText
                                                ELSE DidntCatchRestaurantText) >>,
     gather |-> TRUE, dial |-> FALSE]

\* C7: a turn with an empty utterance or no call_sid answers with the
\* re-prompt, keeps listening, runs no classification or extraction and
\* leaves both tables as they were.
C7_EmptyInputTurn ==
    [][\A w \in Workers :
          (req'[w] # req[w] /\ req'[w].pc = "responded" /\ EmptyInput(req'[w])) =>
              /\ req[w].pc \in {"idle", "responded"}
              /\ req'[w].response = DidntCatch(req'[w])
              /\ req'[w].extractions = 0
              /\ req'[w].classifications = 0
              /\ call_sessions' = call_sessions
              /\ financial_inquiries' = financial_inquiries
              /\ staff_notifications' = staff_notifications]_vars

\* C7 witness: the call has a stored session, and a later turn with no
\* utterance got the re-prompt
C7_Witness ==
    \E w \in Workers :
        /\ req[w].pc = "responded"
        /\ req[w].domain = "financial"
        /\ req[w].SpeechResult = << >>
        /\ req[w].CallSid = CA1
        /\ req[w].response = DidntCatch(req[w])
        /\ HasSession(CA1)

\* C10: a financial turn one of whose steps raised has answered, with the
\* business-hours apology and without a gather, after at most one extraction.
C10_FinancialFailure ==
    \A w \in Workers :
        (req[w].domain = "financial" /\ req[w].raised # "none") =>
            /\ req[w].pc = "responded"
            /\ req[w].response = [say |-> << Reply(ServiceApologyText) >>,
                                  gather |-> FALSE, dial |-> FALSE]
            /\ req[w].extractions <= 1

\* C10 witness: record creation raised after the session was written, and
\* the turn ended with the apology
C10_Witness ==
    \E w \in Workers :
        /\ req[w].raised = "create_inquiry"
        /\ req[w].extractions = 1
        /\ HasSession(req[w].CallSid)
        /\ req[w].response.say = << Reply(ServiceApologyText) >>

\* The step in which the financial turn of worker w ends in the `except` of
\* handle_after_hours_inquiry
FailsNow(w) ==
    /\ req[w].domain = "financial"
    /\ req[w].pc \notin {"idle", "responded"}
    /\ req'[w].pc = "responded"
    /\ req'[w].raised # "none"

\* C11: a financial turn that ends in the internal-error apology leaves the
\* stored session of its call with the fields it had before the turn: the
\* failing step writes nothing, and when record creation raises, the session
\* this turn stored is the session it had loaded.
C11_FailedTurnSkipsProgress ==
    [][\A w \in Workers : FailsNow(w) =>
          /\ call_sessions' = call_sessions
          /\ (/\ req[w].pc = "create_inquiry"
              /\ Stored(req[w].CallSid) = req[w].customer_info)
                 => Stored(req[w].CallSid) = req[w].session_data]_vars

\* C12: a restaurant turn with an utterance and a call_sid, one of whose steps
\* raised, has answered with the apology, dials the live line and does not
\* gather.
C12_RestaurantFailure ==
    \A w \in Workers :
        (req[w].domain = "restaurant" /\ req[w].raised # "none") =>
            /\ req[w].pc = "responded"
            /\ req[w].response = [say |-> << Reply(RestaurantApologyText) >>,
                                  gather |-> FALSE, dial |-> TRUE]

\* C12 witness: the branch taken on the intent raised, and the caller is
\* transferred
C12_Witness ==
    \E w \in Workers :
        /\ req[w].domain = "restaurant"
        /\ req[w].pc = "responded"
        /\ req[w].raised = "branch"
        /\ req[w].classifications = 1
        /\ req[w].response.dial

\* C14: every turn with an utterance and a call_sid persists the session of
\* its call, whichever branch it takes (stated for the restaurant turns that
\* answer with the hours and the address).
C14_EveryTurnPersists ==
    \A w \in Workers :
        (/\ req[w].pc = "responded"
         /\ req[w].domain = "restaurant"
         /\ ~EmptyInput(req[w])
         /\ req[w].response.say = << Reply(HoursInfoText) >>)
            => HasSession(req[w].CallSid)

\* The step in which the notification of worker w's turn raised inside the
\* collaborator
NotificationFails(w) ==
    /\ req[w].pc = "send_staff_notification"
    /\ req'[w].notify_failed

\* C17: when sending the staff notification fails, the completing turn still
\* answers with the confirmation and no gather, and the created record and
\* the stored session are as they were.
C17_NotificationFailure ==
    [][\A w \in Workers : NotificationFails(w) =>
          /\ req'[w].pc = "responded"
          /\ req'[w].raised = "none"
          /\ req'[w].response =
                 [say |-> << ConfirmationReply(
                                 financial_inquiries[req[w].inquiry].customer_name) >>,
                  gather |-> FALSE, dial |-> FALSE]
          /\ financial_inquiries' = financial_inquiries
          /\ call_sessions' = call_sessions]_vars

\* C17 witness: the notification of an URGENT inquiry raised, and the caller
\* got the confirmation
C17_Witness ==
    \E w \in Workers :
        /\ req[w].pc = "responded"
        /\ req[w].notify_failed
        /\ req[w].inquiry # 0
        /\ financial_inquiries[req[w].inquiry].priority.name = S_URGENT
        /\ req[w].response.say[1].text = ConfirmationText

\* The rows a table holds for a call
RowsFor(table, call_sid) == {table[i] : i \in RowsOf(table, call_sid)}

C20_AtMostOneSessionPerCall ==
    \A sid \in active_calls \cup RestaurantCallSids :
        Cardinality(RowsOf(call_sessions, sid)) <= 1

\* C20 witness: two first turns of one call both found no session; one
\* stored the row and the other was refused by the table
C20_Witness ==
    \E w1, w2 \in Workers :
        /\ w1 # w2
        /\ req[w1].CallSid = req[w2].CallSid
        /\ ~req[w1].session_found
        /\ ~req[w2].session_found
        /\ req[w1].pc \in {"create_inquiry", "send_staff_notification", "responded"}
        /\ req[w1].raised \notin {"get_session_data", "update_session_data"}
        /\ req[w1].domain = "financial"
        /\ req[w1].extractions = 1
        /\ req[w2].pc = "responded"
        /\ req[w2].raised = "update_session_data"
        /\ Cardinality(RowsOf(call_sessions, req[w1].CallSid)) = 1

\* C21: the tag of a session row is the one it was created with: no step
\* changes the call_sid or the call_type of a stored row or removes a row,
\* and every row the financial flow has written carries the financial tag.
C21_DomainTagFixed ==
    [][/\ Len(call_sessions') >= Len(call_sessions)
       /\ \A i \in 1..Len(call_sessions) :
             /\ call_sessions'[i].call_sid = call_sessions[i].call_sid
             /\ call_sessions'[i].call_type = call_sessions[i].call_type
       /\ \A i \in 1..Len(call_sessions') :
             call_sessions'[i].call_sid \in active_calls
                 => call_sessions'[i].call_type = "financial"]_vars

\* C21 witness: a later turn of a call has rewritten the row that an earlier
\* turn created, with other fields
C21_Witness ==
    \E w \in Workers :
        /\ req[w].domain = "financial"
        /\ req[w].session_found
        /\ req[w].pc \in {"create_inquiry", "send_staff_notification", "responded"}
        /\ req[w].raised \notin {"get_session_data", "update_session_data"}
        /\ req[w].extractions = 1
        /\ req[w].session_data # req[w].customer_info
        /\ Stored(req[w].CallSid) = req[w].customer_info
        /\ call_sessions[FirstRow(call_sessions, req[w].CallSid)].call_type = "financial"

\* The step is a restaurant turn of worker w that had an utterance and a
\* call_sid and was classified as something other than RESERVATION
OtherIntentTurn(w) ==
    /\ req[w].pc \in {"idle", "responded"}
    /\ req'[w] # req[w]
    /\ req'[w].domain = "restaurant"
    /\ ~EmptyInput(req'[w])
    /\ req'[w].intent \notin {None, S_RESERVATION}

StepRank(pc) ==
    CASE pc = "get_session_data" -> 1
      [] pc = "update_session_data" -> 2
      [] pc = "commit_session" -> 3
      [] pc = "create_inquiry" -> 4
      [] pc = "send_staff_notification" -> 5
      [] pc = "responded" -> 6
      [] OTHER -> 0

\* C25: a turn that has ended has returned one response that says something,
\* and a turn under way has returned none; every step of a turn moves it
\* forward in the handler, so nothing in a turn loops; and every turn under
\* way ends with a response (specification SpecLive).
C25_EveryTurnReplies ==
    /\ [](\A w \in Workers :
             /\ req[w].pc = "responded" =>
                   (req[w].response # NoResponse /\ Len(req[w].response.say) >= 1)
             /\ req[w].pc # "responded" => req[w].response = NoResponse)
    /\ [][\A w \in Workers :
             (InTurn(w) /\ req'[w] # req[w]) =>
                 StepRank(req'[w].pc) > StepRank(req[w].pc)]_vars
    /\ \A w \in Workers : InTurn(w) ~> (req[w].pc = "responded")

\* C25 witness: a turn in which the notification raised and one in which
\* the restaurant branch raised have both ended with a response
C25_Witness ==
    \E w1, w2 \in Workers :
        /\ req[w1].pc = "responded"
        /\ req[w1].notify_failed
        /\ req[w1].response # NoResponse
        /\ req[w2].pc = "responded"
        /\ req[w2].raised = "branch"
        /\ req[w2].response # NoResponse

\* C26: the step that creates a record adds one row whose customer_name,
\* phone, email and reason are the name, phone, email and reason of the fields
\* the same turn stored in the session; and no step changes or removes a
\* row of the inquiry table.
C26_RecordIsSnapshot ==
    [][/\ Len(financial_inquiries') >= Len(financial_inquiries)
       /\ \A i \in 1..Len(financial_inquiries) :
             financial_inquiries'[i] = financial_inquiries[i]
       /\ \A w \in Workers :
             /\ (req[w].pc = "commit_session" /\ req'[w].pc = "create_inquiry")
                   => StoredNext(req[w].CallSid) = req'[w].customer_info
             /\ (req[w].pc = "create_inquiry" /\ req'[w].pc = "send_staff_notification")
                   => /\ Len(financial_inquiries') = Len(financial_inquiries) + 1
                      /\ req'[w].customer_info = req[w].customer_info
                      /\ LET inquiry == financial_inquiries'[Len(financial_inquiries')]
                             info == req[w].customer_info
                         IN  /\ inquiry.customer_name = Get(info, "name")
                             /\ inquiry.phone = Get(info, "phone")
                             /\ inquiry.email = Get(info, "email")
                             /\ inquiry.reason = Get(info, "reason")]_vars

\* C26 witness: a later turn has stored another phone number in the session
\* of a call, and the record the call created holds the one it was created with
C26_Witness ==
    \E i \in 1..Len(financial_inquiries), w \in Workers :
        /\ req[w].pc = "responded"
        /\ req[w].inquiry = i
        /\ HasSession(financial_inquiries[i].created_by)
        /\ Get(Stored(financial_inquiries[i].created_by), "phone")
               # financial_inquiries[i].phone

\* C27: with the backend disabled the reason of a record is an utterance of
\* its call, kept verbatim; when that utterance holds an urgency keyword the
\* record's priority is URGENT, whatever the completing utterance held.
C27_EndToEndUrgency ==
    ~openai_enabled =>
        \A i \in 1..Len(financial_inquiries) :
            ContainsAny(lower(financial_inquiries[i].reason), urgent_keywords)
                => financial_inquiries[i].priority.name = S_URGENT

\* The notifications dispatched for the record with id i
NotificationsOf(i) ==
    {n \in 1..Len(staff_notifications) : staff_notifications[n].inquiry = i}

\* The turn of worker w has returned the confirmation
Confirmed(w) ==
    /\ req[w].pc = "responded"
    /\ req[w].domain = "financial"
    /\ Len(req[w].response.say) = 1
    /\ req[w].response.say[1].text = ConfirmationText

\* C30: the call of every record has a stored session; every notification
\* is for a record that is in the table; a record has one notification, or
\* none while its turn is about to dispatch it, and never two; and a turn
\* that has returned the confirmation has created a record and dispatched
\* its notification.
C30_CompletingTurnOrder ==
    /\ \A i \in 1..Len(financial_inquiries) :
          /\ HasSession(financial_inquiries[i].created_by)
          /\ Cardinality(NotificationsOf(i)) <= 1
          /\ \/ NotificationsOf(i) # {}
             \/ \E w \in Workers : /\ req[w].pc = "send_staff_notification"
                                   /\ req[w].inquiry = i
    /\ \A n \in 1..Len(staff_notifications) :
          staff_notifications[n].inquiry \in 1..Len(financial_inquiries)
    /\ \A w \in Workers :
          /\ req[w].pc \in {"create_inquiry", "send_staff_notification"}
                => HasSession(req[w].CallSid)
          /\ req[w].pc = "send_staff_notification"
                => (/\ req[w].inquiry \in 1..Len(financial_inquiries)
                    /\ NotificationsOf(req[w].inquiry) = {})
          /\ Confirmed(w)
                => (/\ req[w].inquiry \in 1..Len(financial_inquiries)
                    /\ Cardinality(NotificationsOf(req[w].inquiry)) = 1)

\* C30 witness: a turn has returned the confirmation for an URGENT record
\* whose notification asked for the SMS
C30_Witness ==
    \E w \in Workers :
        /\ Confirmed(w)
        /\ req[w].inquiry # 0
        /\ \E n \in NotificationsOf(req[w].inquiry) : staff_notifications[n].urgent_sms

\* The step stores the first session row of the call
FirstPersist(w) ==
    /\ req[w].pc = "commit_session"
    /\ req'[w].pc # "commit_session"
    /\ ~HasSession(req[w].CallSid)
    /\ FirstRow(call_sessions', req[w].CallSid) # 0

\* C32: with the backend disabled, the turn that first persists the session
\* of a call stores its utterance as the reason; from then on the stored
\* reason is that utterance, whatever the later turns say; and no turn
\* returns the canned question for the reason.
C32_ReasonIsFirstUtterance ==
    [][~openai_enabled =>
          /\ \A w \in Workers :
                /\ FirstPersist(w) =>
                      Get(StoredNext(req[w].CallSid), "reason") = req[w].SpeechResult
                /\ req'[w].response.say # << Reply(QuestionReason) >>
          /\ \A sid \in active_calls :
                HasSession(sid) =>
                    /\ Truthy(Get(Stored(sid), "reason"))
                    /\ Get(StoredNext(sid), "reason") = Get(Stored(sid), "reason")]_vars

-----------------------------------------------------------------------------
(* Properties of the classifier (specification SpecClassify) *)

UrgentWords == {W_fraud, W_STOLEN, W_unlocked}
AccountWords == {W_account, W_Balance}
LoanWords == {W_loan, W_Credit}

HasWord(words, S) == \E i \in 1..Len(words) : words[i] \in S

\* The rule-based classifier answered a financial text
RuleAnsweredFinancial ==
    /\ cl.pc = "returned"
    /\ ~openai_enabled
    /\ cl.context = S_financial

\* C8: for the financial domain the rule returns ACCOUNT_INQUIRY / URGENT when
\* the text has an urgency word, whatever topic words it has and in whatever
\* order; otherwise ACCOUNT_INQUIRY / MEDIUM for an account word, otherwise
\* LOAN_APPLICATION / MEDIUM for a loan word, otherwise GENERAL / MEDIUM.
C8_UrgencyPrecedence ==
    RuleAnsweredFinancial =>
        LET intent == Get(cl.result, "intent")
            priority == Get(cl.result, "priority")
        IN  IF HasWord(cl.words, UrgentWords)
            THEN intent = S_ACCOUNT_INQUIRY /\ priority = S_URGENT
            ELSE IF HasWord(cl.words, AccountWords)
            THEN intent = S_ACCOUNT_INQUIRY /\ priority = S_MEDIUM
            ELSE IF HasWord(cl.words, LoanWords)
            THEN intent = S_LOAN_APPLICATION /\ priority = S_MEDIUM
            ELSE intent = S_GENERAL /\ priority = S_MEDIUM

\* C8 witness: a topic word first, an urgency word after it, classified URGENT
C8_Witness ==
    /\ RuleAnsweredFinancial
    /\ cl.words = << W_account, W_fraud >>
    /\ Get(cl.result, "priority") = S_URGENT

ReservationWords == {W_book, W_Table}
MenuWords == {W_menu}
HoursWords == {W_open}

\* The rule-based classifier answered a restaurant text
RuleAnsweredRestaurant ==
    /\ cl.pc = "returned"
    /\ ~openai_enabled
    /\ cl.context = S_restaurant

\* C23: for the restaurant domain the rule returns RESERVATION (0.8) when the
\* text has a reservation word, otherwise MENU_INQUIRY (0.8) for a menu word,
\* otherwise HOURS_LOCATION (0.8) for an hours word, otherwise OTHER (0.5);
\* the result holds nothing but the intent and a confidence within [0,1].
C23_RestaurantRouting ==
    RuleAnsweredRestaurant =>
        LET intent == Get(cl.result, "intent")
            confidence == Get(cl.result, "confidence")
        IN  /\ DOMAIN cl.result = {"intent", "confidence"}
            /\ confidence \in 0..100
            /\ IF HasWord(cl.words, ReservationWords)
               THEN intent = S_RESERVATION /\ confidence = 80
               ELSE IF HasWord(cl.words, MenuWords)
               THEN intent = S_MENU_INQUIRY /\ confidence = 80
               ELSE IF HasWord(cl.words, HoursWords)
               THEN intent = S_HOURS_LOCATION /\ confidence = 80
               ELSE intent = S_OTHER /\ confidence = 50

\* C23 witness: a menu word first, a reservation word after it, classified
\* RESERVATION
C23_Witness ==
    /\ RuleAnsweredRestaurant
    /\ cl.words = << W_menu, W_Table >>
    /\ Get(cl.result, "intent") = S_RESERVATION

\* The backend was called and failed: the call raised, its content is not
\* JSON, or no prompt exists for the context
BackendFailed ==
    \/ cl.backend.kind = "raise"
    \/ cl.backend.content = InvalidJson
    \/ cl.context \notin {S_restaurant, S_financial}

\* C9: classify_intent returns a result for every (text, context) and lets no
\* error out; with the backend disabled, or enabled and failing, the result
\* is the keyword rule's for the same (text, context).
C9_ClassifierNeverFails ==
    cl.pc = "returned" =>
        /\ ~IsRaised(cl.result)
        /\ (~openai_enabled \/ BackendFailed) =>
               cl.result = _fallback_intent_classification(cl.text, cl.context)

\* C9 witness: the backend is enabled, its call raised, and the caller got
\* the rule's URGENT answer
C9_Witness ==
    /\ cl.pc = "returned"
    /\ openai_enabled
    /\ cl.backend.kind = "raise"
    /\ cl.context = S_financial
    /\ Get(cl.result, "priority") = S_URGENT

-----------------------------------------------------------------------------
(* Properties of the extractor and of the record (specification SpecExtract) *)

Extracted == ex.pc \in {"returned", "created"}

\* The rule-based extractor produced the result: the backend is disabled, or
\* its call failed
RuleExtracted ==
    /\ Extracted
    /\ ~openai_enabled \/ ExtractTryException(ex.backend) # NoException

\* C13: the fields returned by a turn's extraction hold every field name of
\* the session they were merged into, and every field that was non-empty in
\* that session is non-empty in them.
C13_FieldsGrowMonotonically ==
    Extracted =>
        /\ DOMAIN ex.existing_data \subseteq DOMAIN ex.result
        /\ \A f \in DOMAIN ex.existing_data :
               Truthy(ex.existing_data[f]) => Truthy(Get(ex.result, f))

\* A recognizer other than the reason's took something from the utterance
Consumed ==
    \/ Truthy(extract_phone_number(ex.user_input))
    \/ Truthy(extract_email(ex.user_input))
    \/ Get(ex.result, "name") # Get(ex.existing_data, "name")

\* C15: with the reason unset, the rule-based extractor stores the utterance
\* as the reason when no name, phone number or email was extracted from it,
\* and leaves the reason unset when one was.
C15_ReasonCapture ==
    (RuleExtracted /\ ~Truthy(Get(ex.existing_data, "reason"))) =>
        IF Consumed
        THEN ~Truthy(Get(ex.result, "reason"))
        ELSE Get(ex.result, "reason") = ex.user_input

LevelNames == {S_LOW, S_MEDIUM, S_HIGH, S_URGENT}

C18_PhoneNormalization ==
    RuleExtracted =>
        IF ex.digits # << >>
        THEN Get(ex.result, "phone") = <<"+", "1">> \o ex.digits
        ELSE /\ Get(ex.result, "phone") = Get(ex.existing_data, "phone")
             /\ "phone" \in DOMAIN ex.result <=> "phone" \in DOMAIN ex.existing_data

\* The introduction cues as words, and the positions of the words that end
\* a cue said in the utterance
CueWords ==
    { << <<"m", "y">>, <<"n", "a", "m", "e">>, <<"i", "s">> >>,
      << <<"i">>, <<"a", "m">> >>,
      << <<"t", "h", "i", "s">>, <<"i", "s">> >> }
CueEnds(words) ==
    {k \in 1..Len(words) :
        \E cue \in CueWords :
            /\ k >= Len(cue)
            /\ \A j \in 1..Len(cue) : lower(words[k - Len(cue) + j]) = cue[j]}

\* The one or two words after position k, title-cased
NameAfter(words, k) == title(join(Slice(words, k, k + 2)))

\* C22: the rule-based extractor changes the name only when the name is unset
\* and the utterance holds an introduction cue, and the name it stores is
\* the one or two words that follow the last word of that cue, title-cased;
\* otherwise the name is as it was.
C22_NameExtraction ==
    RuleExtracted =>
        \/ /\ ("name" \in DOMAIN ex.result) = ("name" \in DOMAIN ex.existing_data)
           /\ Get(ex.result, "name") = Get(ex.existing_data, "name")
        \/ /\ ~Truthy(Get(ex.existing_data, "name"))
           /\ \E k \in CueEnds(split(ex.user_input)) :
                 /\ k < Len(split(ex.user_input))
                 /\ Get(ex.result, "name") = NameAfter(split(ex.user_input), k)

\* The utterances of the model in which an urgent keyword is said, and
\* those in which a high keyword is said
UrgentSaid == {U_stolen, U_payfraud, U_hackdue, U_unlocked}
HighSaid == {U_payment, U_payfraud, U_hackdue, U_urgent}

\* C28: the priority the rule-based extractor derives from an utterance is
\* URGENT when an urgent keyword is said, whatever else is said and in
\* whatever order; otherwise HIGH when a high keyword is said; otherwise
\* MEDIUM; it is never LOW; and it is URGENT whenever the rule-based
\* classifier marks the utterance URGENT.
C28_ExtractorPriority ==
    RuleExtracted =>
        LET priority == Get(ex.result, "priority")
            classified == _fallback_intent_classification(ex.user_input, S_financial)
        IN  /\ priority = _determine_priority(ex.user_input)
            /\ priority # S_LOW
            /\ IF ex.user_input \in UrgentSaid THEN priority = S_URGENT
               ELSE IF ex.user_input \in HighSaid THEN priority = S_HIGH
               ELSE priority = S_MEDIUM
            /\ Get(classified, "priority") = S_URGENT => priority = S_URGENT

\* C28 witness: a high keyword first, an urgent keyword after it, and the
\* priority is URGENT
C28_Witness ==
    /\ RuleExtracted
    /\ ex.user_input = U_payfraud
    /\ Get(ex.result, "priority") = S_URGENT
    /\ Get(_fallback_intent_classification(ex.user_input, S_financial), "priority")
           = S_URGENT

\* C29: extract_customer_info lets no error out, and with the backend
\* disabled, or enabled and its call or the parsing or merging of its answer
\* raising, it returns what the rule-based extractor returns for the same
\* utterance and known fields.
C29_ExtractorFallback ==
    Extracted =>
        /\ ~IsRaised(ex.result)
        /\ RuleExtracted =>
               ex.result = _extract_with_fallback(ex.user_input, ex.existing_data)

\* C29 witness: the backend is enabled, its answer is not JSON, and the name
\* said was taken by the rule
C29_Witness ==
    /\ Extracted
    /\ openai_enabled
    /\ ex.backend.kind = "content"
    /\ ex.backend.content = InvalidJson
    /\ ex.user_input = U_name
    /\ ex.existing_data = EmptyDict
    /\ Get(ex.result, "name") = <<"A", "l">>
    /\ Get(ex.result, "priority") = S_MEDIUM

\* C31: the notification of a created inquiry asks for the SMS to the on-call
\* staff exactly when the inquiry's priority is URGENT or HIGH and an on-call
\* phone number is configured; for MEDIUM and LOW it never does.
C31_PagingGatedByPriority ==
    \A n \in 1..Len(staff_notifications) :
        LET priority == financial_inquiries[staff_notifications[n].inquiry].priority
        IN  /\ staff_notifications[n].urgent_sms
                <=> (/\ priority.name \in {S_URGENT, S_HIGH}
                     /\ oncall_staff_phone # << >>)
            /\ priority.name \in {S_MEDIUM, S_LOW}
                => ~staff_notifications[n].urgent_sms

\* C31 witness: an inquiry of priority HIGH was notified with the on-call
\* phone configured, and the SMS was asked for
C31_Witness ==
    /\ ex.pc = "notified"
    /\ oncall_staff_phone = OnCallPhone
    /\ financial_inquiries[1].priority.name = S_HIGH
    /\ staff_notifications[1].urgent_sms

-----------------------------------------------------------------------------
(* Properties of one call (specification SpecDialogue) *)

\* The turn under way or just ended is the call's, and it ended without an
\* error
TurnEnded ==
    /\ req[DialogueWorker].pc = "responded"
    /\ req[DialogueWorker].raised = "none"

\* C33: a call in which every utterance after a question gave the field
\* asked for takes at most three turns, and its third turn, ending without
\* an error, has created the record and returned the confirmation; a call in
\* which no utterance gave a name, or none gave a phone number, has no record,
\* and each of its turns that ended without an error asked a question and
\* gathers again.
C33_ProgressToCompletion ==
    LET r == req[DialogueWorker]
    IN  /\ r.cooperative => nturns <= 3
        /\ (r.cooperative /\ nturns = 3 /\ TurnEnded) =>
               /\ Confirmed(DialogueWorker)
               /\ ~r.response.gather
               /\ Len(financial_inquiries) = 1
        /\ (~r.said_name \/ ~r.said_phone) =>
               /\ financial_inquiries = << >>
               /\ TurnEnded => (IsQuestion(r.response) /\ r.response.gather)

\* C33 witness: the caller said hello, then the name asked for, then the
\* phone number asked for, and the third turn completed the call
C33_Witness ==
    /\ req[DialogueWorker].cooperative
    /\ nturns = 3
    /\ TurnEnded
    /\ Confirmed(DialogueWorker)
    /\ Get(Stored(CA1), "reason") = U_hello
    /\ Len(financial_inquiries) = 1

=============================================================================
